---- MODULE Spec2Model ----
(***************************************************************************)
(* Fake news detector: the serving process (app.py: artifact load at       *)
(* start-up, text normalisation, the /predict handler) and the training    *)
(* run (model/train_model.py: model selection and save_model), sharing the *)
(* artifact directory model/.                                              *)
(* The two text normalisers and the TF-IDF vectorizer are also checked on   *)
(* their own, applied to bounded sets of texts.                            *)
(*                                                                         *)
(* Python strings are sequences of one-character strings.  JSON values are *)
(* records [t, s, n]: t the type, s the characters of a string, n the      *)
(* value of an int or the length of a list.  Probabilities are fixed-point *)
(* integers, ProbUnit standing for 1.0; a confidence is an integer number  *)
(* of 10^-RoundDigits percent.                                             *)
(***************************************************************************)
EXTENDS Integers, Sequences, FiniteSets, TLC

VARIABLES
    fs,            \* the artifact directory model/: dir flag and three files
    server_pc,     \* "down" | "running" | "crashed" (import of app.py raised)
    model_loaded,  \* app.model_loaded
    model,         \* app.model: the unpickled classifier, or NoFile
    vectorizer,    \* app.vectorizer: the unpickled vectorizer, or NoFile
    request,       \* the body of the last POST /predict
    env,           \* what the libraries did during the last POST /predict
    response,      \* the response of the last POST /predict
    invoked,       \* the callees the last POST /predict reached
    raised,        \* the exception raised inside the last POST /predict
    trainer_pc,    \* where the training run (main of train_model.py) stands
    run,           \* the number of training runs started so far
    best_model,    \* trainer.best_model: the name of a classifier, or "None"
    best_score,    \* trainer.best_score
    best_model_name, \* trainer.best_model_name, "undefined" until first set
    results,       \* the test accuracies of the last train_models call
    train_calls,   \* the train_models calls made on this trainer
    vocab,         \* the feature count of trainer.vectorizer, 0 before fit
    corpus,        \* the CSV files the last load_datasets call found, and
                   \* the diagnostic it printed
    calc           \* the last application of a pure function: its inputs
                   \* and results

serverVars == <<server_pc, model_loaded, model, vectorizer>>
callVars == <<request, env, response, invoked, raised>>
trainerVars == <<trainer_pc, run, best_model, best_score, best_model_name,
                 results, train_calls, vocab, corpus>>
vars == <<fs, server_pc, model_loaded, model, vectorizer,
          request, env, response, invoked, raised,
          trainer_pc, run, best_model, best_score, best_model_name,
          results, train_calls, vocab, corpus, calc>>

----------------------------------------------------------------------------
(* Bounds *)

\* content strings are up to TruncLen + MaxOver characters long
MaxOver == 2
\* the clock values a response's timestamp is drawn from
MaxTime == 2
\* training runs started
MaxRuns == 2
\* test accuracies are the fractions 0/MaxAcc .. MaxAcc/MaxAcc
MaxAcc == 2
\* train_models calls on one trainer
MaxTrainCalls == 2
\* the vectorizer is fitted to 1..MaxFeat features
MaxFeat == 2
\* words in a text given to a normaliser
MaxWords == 2
\* applications of a normaliser to its own output
MaxApply == 2
\* tokens in a text given to the vectorizer
MaxTokens == 4

----------------------------------------------------------------------------
(* Program constants *)

TruncLen == 200
PercentFactor == 100
RoundDigits == 2
RealClass == 1
\* TfidfVectorizer(ngram_range=(1, 2), max_df=0.95, min_df=2)
NgramMin == 1
NgramMax == 2
MaxDfPercent == 95
MinDf == 2

Pow10(n) == IF n = 0 THEN 1 ELSE IF n = 1 THEN 10 ELSE IF n = 2 THEN 100
            ELSE IF n = 3 THEN 1000 ELSE 10000
\* 1.0 as a fixed-point probability: three digits finer than the rounding
ProbUnit == Pow10(RoundDigits) * 1000

ModelNotLoadedMsg == "Model not loaded. Please train the model first."
ValidationMsg == "Please provide either a headline or content."
PredictionPrefix == "Prediction error: "

----------------------------------------------------------------------------
(* Python strings *)

Whitespace == {" ", "\n", "\t"}
LowerLetters == {"a", "b", "c", "e", "f", "h", "i", "n", "o", "p", "s", "t", "w"}
UpperLetters == {"A", "B", "C", "E", "F", "H", "I", "N", "O", "P", "S", "T", "W"}
\* characters that are neither ASCII letters nor whitespace
Digits == {"0", "4", "7"}
Punctuation == {"!", ".", "@"}
NonAscii == {"é", "É"}

\* str.lower() on one character
LowerChar(c) ==
    CASE c = "A" -> "a" [] c = "B" -> "b" [] c = "C" -> "c" [] c = "E" -> "e"
      [] c = "H" -> "h" [] c = "I" -> "i" [] c = "N" -> "n" [] c = "O" -> "o"
      [] c = "S" -> "s" [] c = "T" -> "t" [] c = "F" -> "f" [] c = "P" -> "p"
      [] c = "W" -> "w" [] c = "É" -> "é" [] OTHER -> c

lower(s) == [i \in 1..Len(s) |-> LowerChar(s[i])]

\* strip() left out: the text is used as it was joined
stripOmitted(s) == s

\* str.strip(): drop leading and trailing whitespace
strip(s) ==
    LET keep == {i \in 1..Len(s) : s[i] \notin Whitespace}
    IN  IF keep = {} THEN <<>>
        ELSE LET lo == CHOOSE i \in keep : \A j \in keep : i <= j
                 hi == CHOOSE i \in keep : \A j \in keep : j <= i
             IN  SubSeq(s, lo, hi)

\* str.split(): the maximal runs of non-whitespace characters, in order
split(s) ==
    LET starts == {i \in 1..Len(s) :
                      s[i] \notin Whitespace /\ (i = 1 \/ s[i-1] \in Whitespace)}
        stops == {j \in 1..Len(s) :
                      s[j] \notin Whitespace /\ (j = Len(s) \/ s[j+1] \in Whitespace)}
        nth(k) == CHOOSE i \in starts : Cardinality({j \in starts : j < i}) = k - 1
        stop(i) == CHOOSE j \in stops : j >= i /\ \A k \in stops : k >= i => j <= k
    IN  [k \in 1..Cardinality(starts) |-> SubSeq(s, nth(k), stop(nth(k)))]

\* ' '.join(words)
RECURSIVE join(_)
join(words) ==
    IF words = <<>> THEN <<>>
    ELSE IF Len(words) = 1 THEN words[1]
    ELSE words[1] \o <<" ">> \o join(Tail(words))

\* the substitution with digits kept too, as [^a-zA-Z0-9\s] would
KeepAlnumAndSpace(s) ==
    SelectSeq(s, LAMBDA c : c \in LowerLetters \cup UpperLetters \cup Digits \cup Whitespace)

\* re.sub(r'[^a-zA-Z\s]', '', text)
KeepLettersAndSpace(s) ==
    SelectSeq(s, LAMBDA c : c \in LowerLetters \cup UpperLetters \cup Whitespace)

----------------------------------------------------------------------------
(* Text normaliser of the serving process *)

\* a part of stopwords.words('english'), over the model's alphabet
stop_words ==
    { <<"a">>, <<"a","n">>, <<"i">>, <<"i","s">>, <<"i","t">>, <<"i","n">>,
      <<"o","n">>, <<"t","o">>, <<"b","e">>, <<"h","e">>, <<"n","o">>,
      <<"n","o","t">>, <<"t","h","e">>, <<"s","h","e">>, <<"t","h","i","s">>,
      <<"t","h","a","t">> }

EndsWith(w, suf) ==
    Len(w) >= Len(suf) /\ SubSeq(w, Len(w) - Len(suf) + 1, Len(w)) = suf

DropLast(w, k) == SubSeq(w, 1, Len(w) - k)

\* PorterStemmer.stem: words of at most two letters are returned as they
\* are; step 1a (plural endings) of the algorithm
stem(word) ==
    LET w == lower(word)
    IN  IF Len(w) <= 2 THEN w
        ELSE IF EndsWith(w, <<"s","s","e","s">>) THEN DropLast(w, 2)
        ELSE IF EndsWith(w, <<"i","e","s">>)
             THEN IF Len(w) = 4 THEN DropLast(w, 1) ELSE DropLast(w, 2)
        ELSE IF EndsWith(w, <<"s","s">>) THEN w
        ELSE IF EndsWith(w, <<"s">>) THEN DropLast(w, 1)
        ELSE w

\* the stop words dropped and the other words left as they are
NonStopUnstemmed(words) == SelectSeq(words, LAMBDA w : w \notin stop_words)

\* [ps.stem(word) for word in words if word not in stop_words]
StemNonStop(words) ==
    LET kept == SelectSeq(words, LAMBDA w : w \notin stop_words)
    IN  [k \in 1..Len(kept) |-> stem(kept[k])]

----------------------------------------------------------------------------
(* JSON values and requests *)

JAbsent == [t |-> "absent", s |-> <<>>, n |-> 0]
JNull == [t |-> "null", s |-> <<>>, n |-> 0]
JStr(s) == [t |-> "str", s |-> s, n |-> 0]
JInt(n) == [t |-> "int", s |-> <<>>, n |-> n]
\* a list of n zeros
JList(n) == [t |-> "list", s |-> <<>>, n |-> n]

\* a string of n letters whose characters depend on their position
Mk(n) == [i \in 1..n |-> IF i % 3 = 1 THEN "c" ELSE IF i % 3 = 2 THEN "a" ELSE "t"]

Digit(d) == CASE d = 0 -> "0" [] d = 1 -> "1" [] d = 2 -> "2" [] d = 3 -> "3"
              [] d = 4 -> "4" [] d = 5 -> "5" [] d = 6 -> "6" [] d = 7 -> "7"
              [] d = 8 -> "8" [] OTHER -> "9"

\* str(v), as the f-string formats a value (ints of one digit; lists of zeros)
PyStr(v) ==
    CASE v.t = "str" -> v.s
      [] v.t = "null" -> <<"N","o","n","e">>
      [] v.t = "int" -> <<Digit(v.n)>>
      [] v.t = "list" ->
            <<"[">> \o [i \in 1..(IF v.n = 0 THEN 0 ELSE 3 * v.n - 2) |->
                          IF i % 3 = 1 THEN "0" ELSE IF i % 3 = 2 THEN "," ELSE " "]
                    \o <<"]">>
      [] OTHER -> <<>>

\* data.get(key, ''): the default for an absent key
Get(v) == IF v.t = "absent" THEN JStr(<<>>) ELSE v

Headlines ==
    { JAbsent, JNull, JStr(<<>>), JStr(<<" ">>),
      JStr(<<"T","h","e"," ","C","a","t","s","!">>) }

ContentLens == (TruncLen - 1)..(TruncLen + MaxOver)

Contents ==
    { JAbsent, JNull, JInt(7), JList(0), JList(TruncLen + 1),
      JStr(<<>>), JStr(<<"\n", " ">>),
      JStr(<<"i","t"," ","i","s"," ","9"," ","b","o","s","s","e","s">>) }
    \cup { JStr(Mk(n)) : n \in ContentLens }

\* body: "object" a JSON object; "nonobject" any other JSON value (null, a
\* list, a string); "malformed" a body request.json cannot parse
Requests ==
    { [body |-> "object", headline |-> h, content |-> c] :
          h \in Headlines, c \in Contents }
    \cup { [body |-> b, headline |-> JAbsent, content |-> JAbsent] :
          b \in {"nonobject", "malformed"} }

NoRequest == [body |-> "none", headline |-> JAbsent, content |-> JAbsent]

----------------------------------------------------------------------------
(* Exceptions *)

Exc(type, msg) == [type |-> type, msg |-> msg]
NoExc == Exc("none", "")

\* the classes that derive from Exception, among those raised here
ExceptionSubclasses ==
    { "FileNotFoundError", "UnpicklingError", "BadRequest", "AttributeError",
      "TypeError", "ValueError", "OSError", "ParserError", "KeyError" }

IsSubclass(type, base) ==
    IF base = "Exception" THEN type \in ExceptionSubclasses ELSE type = base

----------------------------------------------------------------------------
(* The two text normalisers, on Python values *)

\* float('nan'), as pandas holds a missing cell
NaN == [t |-> "nan", s |-> <<>>, n |-> 0]

\* bool(v)
Truthy(v) ==
    CASE v.t = "str" -> v.s # <<>>
      [] v.t \in {"int", "list"} -> v.n # 0
      [] v.t = "nan" -> TRUE
      [] OTHER -> FALSE

\* pd.isna that finds nothing missing
isnaNever(v) == FALSE

\* pd.isna(v) on a scalar
isna(v) == v.t \in {"null", "nan"}

Return(text) == [exc |-> NoExc, value |-> text]
Raise(type, msg) == [exc |-> Exc(type, msg), value |-> <<>>]

\* app.preprocess_text
preprocess_text(text) ==
    IF ~Truthy(text) \/ isna(text) THEN Return(<<>>)
    ELSE IF text.t # "str"
    THEN Raise("AttributeError", "object has no attribute 'lower'")
    ELSE Return(join(StemNonStop(split(KeepLettersAndSpace(lower(text.s))))))

\* the positions of s, in order
Positions(s) == [i \in 1..Len(s) |-> i]

HasAt(s, j, lit) ==
    j + Len(lit) - 1 <= Len(s) /\ SubSeq(s, j, j + Len(lit) - 1) = lit

\* a match of http\S+|www\S+|https\S+ starts at j
UrlStart(s, j) ==
    \/ HasAt(s, j, <<"h","t","t","p">>) /\ j + 4 <= Len(s) /\ s[j+4] \notin Whitespace
    \/ HasAt(s, j, <<"w","w","w">>) /\ j + 3 <= Len(s) /\ s[j+3] \notin Whitespace

\* re.sub(r'http\S+|www\S+|https\S+', '', text): a match runs to the end of
\* its run of non-whitespace characters
RemoveUrls(s) ==
    LET gone(i) == \E j \in 1..i :
                      UrlStart(s, j) /\ \A k \in j..i : s[k] \notin Whitespace
        ix == SelectSeq(Positions(s), LAMBDA i : ~gone(i))
    IN  [k \in 1..Len(ix) |-> s[ix[k]]]

\* re.sub(r'\S+@\S+', '', text): a run of non-whitespace characters goes when
\* it has an @ that is neither its first nor its last character
RemoveEmails(s) ==
    LET inner(k) == /\ s[k] = "@"
                    /\ k > 1 /\ s[k-1] \notin Whitespace
                    /\ k < Len(s) /\ s[k+1] \notin Whitespace
        gone(i) == /\ s[i] \notin Whitespace
                   /\ \E k \in 1..Len(s) :
                         /\ inner(k)
                         /\ \A m \in (IF k < i THEN k..i ELSE i..k) :
                               s[m] \notin Whitespace
        ix == SelectSeq(Positions(s), LAMBDA i : ~gone(i))
    IN  [k \in 1..Len(ix) |-> s[ix[k]]]

\* re.sub(r'\s+', ' ', text)
CollapseSpaces(s) ==
    LET first(i) == s[i] \notin Whitespace \/ i = 1 \/ s[i-1] \notin Whitespace
        ix == SelectSeq(Positions(s), first)
    IN  [k \in 1..Len(ix) |-> IF s[ix[k]] \in Whitespace THEN " " ELSE s[ix[k]]]

\* the tokens the trainer's normaliser filters and stems: text.split() of the
\* lowered text without URLs, e-mail addresses and non-letters
TrainTokens(s) ==
    split(strip(CollapseSpaces(KeepLettersAndSpace(RemoveEmails(RemoveUrls(lower(s)))))))

\* the list comprehension without the len(word) > 2 condition
StemKeptAnyLength(words) ==
    LET kept == SelectSeq(words, LAMBDA w : w \notin stop_words)
    IN  [k \in 1..Len(kept) |-> stem(kept[k])]

\* [self.ps.stem(word) for word in words
\*      if word not in self.stop_words and len(word) > 2]
StemKept(words) ==
    LET kept == SelectSeq(words, LAMBDA w : w \notin stop_words /\ Len(w) > 2)
    IN  [k \in 1..Len(kept) |-> stem(kept[k])]

\* FakeNewsModelTrainer.preprocess_text
trainer_preprocess_text(text) ==
    IF isna(text) \/ (text.t = "str" /\ text.s = <<>>) THEN Return(<<>>)
    ELSE IF text.t # "str"
    THEN Raise("AttributeError", "object has no attribute 'lower'")
    ELSE Return(join(StemKept(TrainTokens(text.s))))

----------------------------------------------------------------------------
(* The artifact directory and the start-up load of the serving process *)

\* a file: st is "absent", "partial" (opened for writing, or cut short) or
\* "complete"; run is the training run that wrote it; name the classifier
\* (model file, info file); acc the test accuracy and nfeat the feature
\* count written to the info file (nfeat also the vectorizer's vocabulary)
File(st, r, name, acc, nfeat) ==
    [st |-> st, run |-> r, name |-> name, acc |-> acc, nfeat |-> nfeat]
NoFile == File("absent", 0, "none", 0, 0)

\* open(path, 'rb') followed by pickle.load(f)
Unpickle(dir, file) ==
    IF ~dir \/ file.st = "absent"
    THEN [exc |-> Exc("FileNotFoundError", "No such file or directory"),
          value |-> NoFile]
    ELSE IF file.st = "partial"
    THEN [exc |-> Exc("UnpicklingError", "pickle data was truncated"),
          value |-> NoFile]
    ELSE [exc |-> NoExc, value |-> file]

\* except FileNotFoundError
LoadCatches(exc) == IsSubclass(exc.type, "FileNotFoundError")

\* the artifact read again whenever no request is being served
StartupAnytime ==
    /\ server_pc \in {"down", "running"}
    /\ request = NoRequest
    /\ LET m == Unpickle(fs.dir, fs.model_pkl)
           v == IF m.exc = NoExc THEN Unpickle(fs.dir, fs.vectorizer_pkl)
                ELSE [exc |-> m.exc, value |-> NoFile]
       IN  /\ model' = m.value
           /\ vectorizer' = v.value
           /\ model_loaded' = (v.exc = NoExc)
           /\ server_pc' = IF v.exc = NoExc \/ LoadCatches(v.exc)
                           THEN "running" ELSE "crashed"
    /\ UNCHANGED <<calc, fs, callVars, trainerVars>>

\* app.py, module level: load model and vectorizer on start-up
Startup ==
    /\ server_pc = "down"
    /\ LET m == Unpickle(fs.dir, fs.model_pkl)
           v == IF m.exc = NoExc THEN Unpickle(fs.dir, fs.vectorizer_pkl)
                ELSE [exc |-> m.exc, value |-> NoFile]
       IN  /\ model' = m.value
           /\ vectorizer' = v.value
           /\ model_loaded' = (v.exc = NoExc)
           /\ server_pc' = IF v.exc = NoExc \/ LoadCatches(v.exc)
                           THEN "running" ELSE "crashed"
    /\ UNCHANGED <<calc, fs, callVars, trainerVars>>

----------------------------------------------------------------------------
(* The classifier and the vectorizer, as the handler sees them *)

Classes == {0, 1}

\* predict_proba(...)[0]: one probability per class, summing to 1
ProbaSamples == { 0, 15000, 29996, 50000, 70004, 99995, ProbUnit }
Probas == { <<ProbUnit - p, p>> : p \in ProbaSamples }

\* the first class of least probability
ArgMin(proba) ==
    CHOOSE c \in Classes :
        /\ \A d \in Classes : proba[c + 1] <= proba[d + 1]
        /\ \A d \in Classes : proba[d + 1] = proba[c + 1] => c <= d

\* predict(...)[0] of a fitted classifier: the first class of greatest
\* probability
ArgMax(proba) ==
    CHOOSE c \in Classes :
        /\ \A d \in Classes : proba[d + 1] <= proba[c + 1]
        /\ \A d \in Classes : proba[d + 1] = proba[c + 1] => c <= d

\* what the libraries do during one call: fail names the call that raises
Envs ==
    { [fail |-> "none", prediction |-> ArgMax(p), proba |-> p, ts |-> t] :
          p \in Probas, t \in 1..MaxTime }
    \cup { [fail |-> f, prediction |-> 0, proba |-> <<ProbUnit, 0>>, ts |-> 1] :
          f \in {"transform", "predict", "predict_proba"} }

NoEnv == [fail |-> "none", prediction |-> 0, proba |-> <<ProbUnit, 0>>, ts |-> 0]

\* min() in the place of max()
MinProba(proba) == CHOOSE p \in {proba[i] : i \in 1..Len(proba)} :
                       \A i \in 1..Len(proba) : p <= proba[i]

\* max(probability)
Max(proba) == CHOOSE p \in {proba[i] : i \in 1..Len(proba)} :
                  \A i \in 1..Len(proba) : proba[i] <= p

\* round(x, RoundDigits) of x / ProbUnit percent: the nearest multiple of
\* 10^-RoundDigits, an exact half going to the even neighbour
round(x) ==
    LET d == ProbUnit \div Pow10(RoundDigits)
        q == x \div d
        r == x % d
    IN  IF 2 * r < d THEN q
        ELSE IF 2 * r > d THEN q + 1
        ELSE IF q % 2 = 0 THEN q ELSE q + 1

----------------------------------------------------------------------------
(* POST /predict *)

\* a response: keys are the fields of its JSON object; a field that is not
\* among the keys holds a filler
Response(status, keys, success, error, result, confidence, headline, content, ts) ==
    [status |-> status, keys |-> keys, success |-> success, error |-> error,
     result |-> result, confidence |-> confidence, headline |-> headline,
     content |-> content, timestamp |-> ts]

NoResponse == Response(0, {}, FALSE, <<"", "">>, "", 0, JAbsent, JAbsent, 0)

\* an error answered with status 400
ErrorResponse400(text, detail) ==
    [status |-> 400, keys |-> {"error", "success"}, success |-> FALSE,
     error |-> <<text, detail>>, result |-> "", confidence |-> 0,
     headline |-> JAbsent, content |-> JAbsent, timestamp |-> 0]

\* jsonify({'error': ..., 'success': False}): status 200; the error text is
\* kept as the pair of its fixed part and the exception's message
ErrorResponse(text, detail) ==
    Response(200, {"error", "success"}, FALSE, <<text, detail>>, "", 0,
             JAbsent, JAbsent, 0)

\* jsonify of the result of a prediction
SuccessResponse(result, confidence, headline, content, timestamp) ==
    Response(200,
             {"success", "result", "confidence", "headline", "content", "timestamp"},
             TRUE, <<"", "">>, result, confidence, headline, content, timestamp)

\* what Flask answers when the view function raises
UnhandledResponse ==
    Response(500, {}, FALSE, <<"", "">>, "", 0, JAbsent, JAbsent, 0)

\* except ValueError
HandlerCatchesValueError(exc) == IsSubclass(exc.type, "ValueError")

\* except Exception
HandlerCatches(exc) == IsSubclass(exc.type, "Exception")

\* the two labels exchanged
LabelSwapped(prediction) == IF prediction = RealClass THEN "Fake" ELSE "Real"

\* "Real" if prediction == 1 else "Fake"
Label(prediction) == IF prediction = RealClass THEN "Real" ELSE "Fake"

\* round(max(probability) * 100, 2)
Confidence(proba) == round(Max(proba) * PercentFactor)

\* len(content) >= 200 in the place of len(content) > 200
TruncateGe(content) ==
    IF content.t # "str" THEN [exc |-> NoExc, value |-> content]
    ELSE IF Len(content.s) >= TruncLen
    THEN [exc |-> NoExc,
          value |-> JStr(SubSeq(content.s, 1, TruncLen) \o <<".", ".", ".">>)]
    ELSE [exc |-> NoExc, value |-> content]

\* content[:200] + '...' if len(content) > 200 else content
Truncate(content) ==
    IF content.t \in {"null", "int"}
    THEN [exc |-> Exc("TypeError", "object has no len()"), value |-> JAbsent]
    ELSE IF content.t = "list"
    THEN IF content.n > TruncLen
         THEN [exc |-> Exc("TypeError", "can only concatenate list to list"),
               value |-> JAbsent]
         ELSE [exc |-> NoExc, value |-> content]
    ELSE IF Len(content.s) > TruncLen
    THEN [exc |-> NoExc,
          value |-> JStr(SubSeq(content.s, 1, TruncLen) \o <<".", ".", ".">>)]
    ELSE [exc |-> NoExc, value |-> content]

Outcome(exc, resp, calls) == [exc |-> exc, response |-> resp, invoked |-> calls]

\* the body of the try block of predict()
TryBody(req, e) ==
    LET headline == Get(req.headline)
        content == Get(req.content)
        full_text == strip(PyStr(headline) \o <<" ">> \o PyStr(content))
        processed_text == preprocess_text(JStr(full_text))
        built == Truncate(content)
        parsed == {"request.json"}
        normalized == parsed \cup {"preprocess_text"}
        transformed == normalized \cup {"vectorizer.transform"}
        predicted == transformed \cup {"model.predict"}
        all == predicted \cup {"model.predict_proba"}
    IN  IF req.body = "malformed"
        THEN Outcome(Exc("BadRequest", "400 Bad Request"), NoResponse, parsed)
        ELSE IF req.body = "nonobject"
        THEN Outcome(Exc("AttributeError", "object has no attribute 'get'"),
                     NoResponse, parsed)
        ELSE IF full_text = <<>>
        THEN Outcome(NoExc, ErrorResponse(ValidationMsg, ""), parsed)
        ELSE IF e.fail = "transform"
        THEN Outcome(Exc("ValueError", "transform failed"), NoResponse, transformed)
        ELSE IF e.fail = "predict"
        THEN Outcome(Exc("ValueError", "predict failed"), NoResponse, predicted)
        ELSE IF e.fail = "predict_proba"
        THEN Outcome(Exc("AttributeError", "predict_proba failed"), NoResponse, all)
        ELSE IF built.exc # NoExc
        THEN Outcome(built.exc, NoResponse, all)
        ELSE Outcome(NoExc,
                     SuccessResponse(Label(e.prediction), Confidence(e.proba),
                                     headline, built.value, e.ts),
                     all)

\* predict() without the model_loaded check
HandleUnchecked(loaded, req, e) ==
    LET o == TryBody(req, e)
    IN  IF o.exc = NoExc THEN o
        ELSE Outcome(o.exc, ErrorResponse(PredictionPrefix, o.exc.msg), o.invoked)

\* predict(): the view function of POST /predict
Handle(loaded, req, e) ==
    IF ~loaded
    THEN Outcome(NoExc, ErrorResponse(ModelNotLoadedMsg, ""), {})
    ELSE LET o == TryBody(req, e)
         IN  IF o.exc = NoExc THEN o
             ELSE IF HandlerCatches(o.exc)
             THEN Outcome(o.exc, ErrorResponse(PredictionPrefix, o.exc.msg), o.invoked)
             ELSE Outcome(o.exc, UnhandledResponse, o.invoked)

\* Handle on every input, computed once
HandleTable ==
    [loaded \in BOOLEAN, req \in Requests, e \in Envs |-> Handle(loaded, req, e)]

Predict(req, e) ==
    /\ server_pc = "running"
    /\ request = NoRequest
    /\ LET o == HandleTable[model_loaded, req, e]
       IN  /\ response' = o.response
           /\ invoked' = o.invoked
           /\ raised' = o.exc
    /\ request' = req
    /\ env' = e
    /\ UNCHANGED <<calc, fs, serverVars, trainerVars>>

\* the response is sent and Flask pops the request context: the handler's
\* locals are gone and the next request can be served
Teardown ==
    /\ server_pc = "running"
    /\ request # NoRequest
    /\ request' = NoRequest
    /\ env' = NoEnv
    /\ response' = NoResponse
    /\ invoked' = {}
    /\ raised' = NoExc
    /\ UNCHANGED <<calc, fs, serverVars, trainerVars>>

----------------------------------------------------------------------------
(* The training run: main() of model/train_model.py *)

\* self.models, in insertion order
ModelNames == <<"logistic_regression", "random_forest", "naive_bayes">>

Accs == 0..MaxAcc
NoResults == [i \in 1..Len(ModelNames) |-> 0]

\* if test_acc > self.best_score
Better(test_acc, score) == test_acc > score

\* the loop of train_models over self.models.items(): st holds best_score,
\* best_model and best_model_name; accs[i] is the test accuracy of the i-th
\* classifier
RECURSIVE TrainLoop(_, _, _)
TrainLoop(i, accs, st) ==
    IF i > Len(ModelNames) THEN st
    ELSE TrainLoop(i + 1, accs,
             IF Better(accs[i], st.best_score)
             THEN [best_score |-> accs[i], best_model |-> ModelNames[i],
                   best_model_name |-> ModelNames[i]]
             ELSE st)

\* a CSV file: st is "missing", "malformed" (pd.read_csv raises) or "ok";
\* cols are the columns of its header
Csv(st, cols) == [st |-> st, cols |-> cols]

CsvFiles ==
    { Csv("missing", {}), Csv("malformed", {}),
      Csv("ok", {"title", "text"}), Csv("ok", {"text"}), Csv("ok", {"title"}) }

NoCsv == Csv("none", {})
NoCorpus == [fake |-> NoCsv, true |-> NoCsv, diag |-> ""]
NoCalc == [op |-> "none"]

\* trainer = FakeNewsModelTrainer(): the start of main()
NewTrainer ==
    /\ trainer_pc \in {"none", "done", "aborted", "failed", "crashed"}
    /\ run < MaxRuns
    /\ run' = run + 1
    /\ trainer_pc' = "init"
    /\ best_model' = "None"
    /\ best_score' = 0
    /\ best_model_name' = "undefined"
    /\ results' = NoResults
    /\ train_calls' = 0
    /\ vocab' = 0
    /\ corpus' = NoCorpus
    /\ UNCHANGED <<calc, fs, serverVars, callVars>>

\* pd.read_csv(path)
ReadCsv(file) ==
    IF file.st = "missing" THEN Exc("FileNotFoundError", "No such file or directory")
    ELSE IF file.st = "malformed" THEN Exc("ParserError", "Error tokenizing data")
    ELSE NoExc

\* df['title'].fillna('') + ' ' + df['text'].fillna(''): fillna fills the
\* missing cells of a column; indexing a column the frame lacks raises
TitleAndText(file) ==
    IF "title" \notin file.cols THEN Exc("KeyError", "title")
    ELSE IF "text" \notin file.cols THEN Exc("KeyError", "text")
    ELSE NoExc

FirstExc(excs) ==
    IF \A i \in 1..Len(excs) : excs[i] = NoExc THEN NoExc
    ELSE excs[CHOOSE i \in 1..Len(excs) :
                 excs[i] # NoExc /\ \A j \in 1..(i - 1) : excs[j] = NoExc]

\* the diagnostic of 'except FileNotFoundError' and of 'except Exception'
Diagnostic(exc) ==
    IF IsSubclass(exc.type, "FileNotFoundError") THEN "Error: "
    ELSE IF IsSubclass(exc.type, "Exception") THEN "Error loading datasets: "
    ELSE ""

\* load_datasets with every file taken as readable
load_datasetsUnchecked(fake, true) == [df |-> "DataFrame", diag |-> ""]

\* load_datasets(): the combined frame, or None after a diagnostic
load_datasets(fake, true) ==
    LET exc == FirstExc(<<ReadCsv(fake), ReadCsv(true),
                          TitleAndText(fake), TitleAndText(true)>>)
    IN  IF exc = NoExc THEN [df |-> "DataFrame", diag |-> ""]
        ELSE [df |-> "None", diag |-> Diagnostic(exc)]

\* df = trainer.load_datasets(); if df is None: return
LoadDatasets(fake, true) ==
    /\ trainer_pc = "init"
    /\ LET r == load_datasets(fake, true)
       IN  /\ trainer_pc' = IF r.df = "None" THEN "aborted" ELSE "loaded"
           /\ corpus' = [fake |-> fake, true |-> true, diag |-> r.diag]
    /\ UNCHANGED <<calc, fs, serverVars, callVars, run, best_model, best_score,
                   best_model_name, results, train_calls, vocab>>

\* prepare_data(): preprocess and fit the vectorizer to nfeat features
PrepareData(nfeat) ==
    /\ trainer_pc = "loaded"
    /\ trainer_pc' = "prepared"
    /\ vocab' = nfeat
    /\ UNCHANGED <<calc, fs, serverVars, callVars, corpus, run, best_model, best_score,
                   best_model_name, results, train_calls>>

\* train_models(): fit every classifier, keep the best by test accuracy
TrainModels(accs) ==
    /\ trainer_pc \in {"prepared", "trained"}
    /\ train_calls < MaxTrainCalls
    /\ LET st == TrainLoop(1, accs,
                     [best_score |-> best_score, best_model |-> best_model,
                      best_model_name |-> best_model_name])
       IN  /\ best_score' = st.best_score
           /\ best_model' = st.best_model
           /\ best_model_name' = st.best_model_name
    /\ results' = accs
    /\ train_calls' = train_calls + 1
    /\ trainer_pc' = "trained"
    /\ UNCHANGED <<calc, fs, serverVars, callVars, corpus, run, vocab>>

\* evaluate_best_model(): reading self.best_model_name raises AttributeError
\* when train_models never set it
EvaluateBestModel ==
    /\ trainer_pc = "trained"
    /\ trainer_pc' = IF best_model_name = "undefined" THEN "failed" ELSE "evaluated"
    /\ UNCHANGED <<calc, fs, serverVars, callVars, corpus, run, best_model, best_score,
                   best_model_name, results, train_calls, vocab>>

\* test_sample_predictions()
TestSamplePredictions ==
    /\ trainer_pc = "evaluated"
    /\ trainer_pc' = "save_model"
    /\ UNCHANGED <<calc, fs, serverVars, callVars, corpus, run, best_model, best_score,
                   best_model_name, results, train_calls, vocab>>

IndexOf(name) == CHOOSE i \in 1..Len(ModelNames) : ModelNames[i] = name

\* the first classifier of self.models pickled in the place of best_model
ModelPickleFirst == File("complete", run, ModelNames[1], results[1], 0)

\* what save_model writes: the pickled best_model (with the test accuracy
\* of its last fit), the pickled vectorizer, the info summary
ModelPickle ==
    File("complete", run, best_model,
         IF best_model = "None" THEN 0 ELSE results[IndexOf(best_model)], 0)
VectorizerPickle == File("complete", run, "none", 0, vocab)
\* f"{x:.4f}" of the accuracy x / MaxAcc, as a number of ten-thousandths:
\* the nearest one, an exact half going to the even neighbour
Fmt4(x) ==
    LET q == (x * 10000) \div MaxAcc
        r == (x * 10000) % MaxAcc
    IN  IF 2 * r < MaxAcc THEN q
        ELSE IF 2 * r > MaxAcc THEN q + 1
        ELSE IF q % 2 = 0 THEN q ELSE q + 1

InfoText == File("complete", run, best_model_name, Fmt4(best_score), vocab)

\* if not os.path.exists(save_dir): os.makedirs(save_dir)
SaveMakeDirs ==
    /\ trainer_pc = "save_model"
    /\ fs' = [fs EXCEPT !.dir = TRUE]
    /\ trainer_pc' = "open_model"
    /\ UNCHANGED <<calc, serverVars, callVars, corpus, run, best_model, best_score,
                   best_model_name, results, train_calls, vocab>>

\* open(path, 'wb'): the file is created or cut to length 0
SaveOpen(pc, next, file) ==
    /\ trainer_pc = pc
    /\ fs' = [fs EXCEPT ![file] = File("partial", run, "none", 0, 0)]
    /\ trainer_pc' = next
    /\ UNCHANGED <<calc, serverVars, callVars, corpus, run, best_model, best_score,
                   best_model_name, results, train_calls, vocab>>

\* pickle.dump / f.write, and the close at the end of the with block
SaveWrite(pc, next, file, content) ==
    /\ trainer_pc = pc
    /\ fs' = [fs EXCEPT ![file] = content]
    /\ trainer_pc' = next
    /\ UNCHANGED <<calc, serverVars, callVars, corpus, run, best_model, best_score,
                   best_model_name, results, train_calls, vocab>>

SaveOpenModel == SaveOpen("open_model", "dump_model", "model_pkl")
SaveDumpModel == SaveWrite("dump_model", "open_vectorizer", "model_pkl", ModelPickle)
SaveOpenVectorizer == SaveOpen("open_vectorizer", "dump_vectorizer", "vectorizer_pkl")
SaveDumpVectorizer ==
    SaveWrite("dump_vectorizer", "open_info", "vectorizer_pkl", VectorizerPickle)
SaveOpenInfo == SaveOpen("open_info", "write_info", "model_info")
SaveWriteInfo == SaveWrite("write_info", "done", "model_info", InfoText)

SavePcs == {"open_model", "dump_model", "open_vectorizer", "dump_vectorizer",
            "open_info", "write_info"}

\* save_model has no handler and no temporary file: an OSError of open or
\* dump (or the end of the process) leaves the directory as it is
SaveFails ==
    /\ trainer_pc \in SavePcs
    /\ trainer_pc' = "crashed"
    /\ UNCHANGED <<calc, fs, serverVars, callVars, corpus, run, best_model, best_score,
                   best_model_name, results, train_calls, vocab>>

NextTrain ==
    \/ NewTrainer
    \/ \E fake \in CsvFiles, true \in CsvFiles : LoadDatasets(fake, true)
    \/ \E nfeat \in 1..MaxFeat : PrepareData(nfeat)
    \/ \E accs \in [1..Len(ModelNames) -> Accs] : TrainModels(accs)
    \/ EvaluateBestModel
    \/ TestSamplePredictions
    \/ SaveMakeDirs
    \/ SaveOpenModel
    \/ SaveDumpModel
    \/ SaveOpenVectorizer
    \/ SaveDumpVectorizer
    \/ SaveOpenInfo
    \/ SaveWriteInfo
    \/ SaveFails

EmptyDir ==
    [dir |-> FALSE, model_pkl |-> NoFile, vectorizer_pkl |-> NoFile,
     model_info |-> NoFile]

ServerDown ==
    /\ server_pc = "down"
    /\ model_loaded = FALSE
    /\ model = NoFile
    /\ vectorizer = NoFile
    /\ request = NoRequest
    /\ env = NoEnv
    /\ response = NoResponse
    /\ invoked = {}
    /\ raised = NoExc

NoTrainer ==
    /\ trainer_pc = "none"
    /\ run = 0
    /\ best_model = "None"
    /\ best_score = 0
    /\ best_model_name = "undefined"
    /\ results = NoResults
    /\ train_calls = 0
    /\ vocab = 0
    /\ corpus = NoCorpus

\* the training run on its own, from a fresh checkout
InitTrain == fs = EmptyDir /\ ServerDown /\ NoTrainer /\ calc = NoCalc

SpecTrain == InitTrain /\ [][NextTrain]_vars

----------------------------------------------------------------------------
(* The serving process on its own, started on any state of the directory *)

FileStates == {"absent", "partial", "complete"}

ArtifactDirs ==
    { [dir |-> d,
       model_pkl |-> IF d /\ m # "absent"
                     THEN File(m, 1, "logistic_regression", 0, 0) ELSE NoFile,
       vectorizer_pkl |-> IF d /\ v # "absent" THEN File(v, 1, "none", 0, 3) ELSE NoFile,
       model_info |-> NoFile] :
          d \in BOOLEAN, m \in FileStates, v \in FileStates }

InitServe == fs \in ArtifactDirs /\ ServerDown /\ NoTrainer /\ calc = NoCalc

NextServe ==
    \/ Startup
    \/ \E req \in Requests, e \in Envs : Predict(req, e)
    \/ Teardown

SpecServe == InitServe /\ [][NextServe]_vars

----------------------------------------------------------------------------
(* Training and serving on one directory *)

Init == InitTrain

Next == NextTrain \/ NextServe

Spec == Init /\ [][Next]_vars

----------------------------------------------------------------------------
(* Training and serving on one directory, on a few inputs of each kind *)

SystemRequests ==
    { [body |-> "object", headline |-> JStr(<<"T","h","e"," ","C","a","t","s","!">>),
       content |-> JStr(Mk(TruncLen + 1))],
      [body |-> "object", headline |-> JAbsent, content |-> JStr(<<>>)] }

SystemEnvs ==
    { e \in Envs : e.ts = 1 /\ (e.fail = "transform" \/ e.proba[2] = ProbUnit) }

SystemAccs == { <<0, 0, 0>>, <<1, 0, 0>>, <<0, 1, 1>> }

SystemFeats == {1, MaxFeat}

NextSystem ==
    \/ NewTrainer
    \/ \E fake \in CsvFiles, true \in CsvFiles : LoadDatasets(fake, true)
    \/ \E nfeat \in SystemFeats : PrepareData(nfeat)
    \/ \E accs \in SystemAccs : TrainModels(accs)
    \/ EvaluateBestModel
    \/ TestSamplePredictions
    \/ SaveMakeDirs
    \/ SaveOpenModel
    \/ SaveDumpModel
    \/ SaveOpenVectorizer
    \/ SaveDumpVectorizer
    \/ SaveOpenInfo
    \/ SaveWriteInfo
    \/ Startup
    \/ \E req \in SystemRequests, e \in SystemEnvs : Predict(req, e)
    \/ Teardown

SpecSystem == Init /\ [][NextSystem]_vars

----------------------------------------------------------------------------
(* The normalisers on their own, applied to texts of a few words *)

RawWords ==
    { <<"a","n","s">>, <<"a","n">>, <<"T","h","e">>, <<"C","a","t","s","!">>,
      <<"c","4","t">>, <<"c","a","f","é">>, <<"É">>, <<"a","@","b">>,
      <<"h","t","t","p","s">>, <<"w","w","w",".","c">>, <<"W","w","w","c">>,
      <<"t","i","e","s">> }

Separators == { <<" ">>, <<" "," ">>, <<>> }
Pads == { <<>>, <<" ","\n">> }

RECURSIVE Glue(_, _)
Glue(ws, seps) ==
    IF ws = <<>> THEN <<>>
    ELSE IF Len(ws) = 1 THEN ws[1]
    ELSE ws[1] \o seps[1] \o Glue(Tail(ws), Tail(seps))

NormTexts ==
    UNION { { pad \o Glue(ws, seps) \o pad :
                ws \in [1..k -> RawWords], seps \in [1..(k-1) -> Separators],
                pad \in Pads } : k \in 0..MaxWords }

\* what a caller can pass: None, NaN, an int, or a str
NormArgs == {JNull, NaN, JInt(0), JInt(7)} \cup {JStr(t) : t \in NormTexts}

Calc(op, arg, out, n) == [op |-> op, arg |-> arg, out |-> out, n |-> n]

InitNorm ==
    /\ fs = EmptyDir /\ ServerDown /\ NoTrainer
    /\ calc \in {Calc("input", a, Return(<<>>), 0) : a \in NormArgs}

\* preprocess_text(text) of app.py
ApplyServe ==
    /\ calc.op = "input"
    /\ calc' = Calc("app.preprocess_text", calc.arg, preprocess_text(calc.arg), 1)
    /\ UNCHANGED <<fs, serverVars, callVars, trainerVars>>

\* trainer.preprocess_text(text)
ApplyTrain ==
    /\ calc.op = "input"
    /\ calc' = Calc("trainer.preprocess_text", calc.arg,
                    trainer_preprocess_text(calc.arg), 1)
    /\ UNCHANGED <<fs, serverVars, callVars, trainerVars>>

\* the same normaliser applied to the string it returned
Reapply ==
    /\ calc.op \in {"app.preprocess_text", "trainer.preprocess_text"}
    /\ calc.out.exc = NoExc
    /\ calc.n < MaxApply
    /\ LET arg == JStr(calc.out.value)
       IN  calc' = Calc(calc.op, arg,
                        IF calc.op = "app.preprocess_text"
                        THEN preprocess_text(arg)
                        ELSE trainer_preprocess_text(arg),
                        calc.n + 1)
    /\ UNCHANGED <<fs, serverVars, callVars, trainerVars>>

\* both normalisers on one text
ApplyBoth ==
    /\ calc.op = "input"
    /\ calc' = [op |-> "both", arg |-> calc.arg, n |-> 1,
                out |-> preprocess_text(calc.arg),
                trainer_out |-> trainer_preprocess_text(calc.arg)]
    /\ UNCHANGED <<fs, serverVars, callVars, trainerVars>>

NextNorm == ApplyServe \/ ApplyTrain \/ Reapply \/ ApplyBoth

SpecNorm == InitNorm /\ [][NextNorm]_vars

----------------------------------------------------------------------------
(* The TF-IDF vectorizer: fit on a corpus, transform of a normalised text *)

\* a part of the stop_words='english' list of the vectorizer
english_stop_words == { <<"a","n">>, <<"t","h","e">>, <<"i","s">>, <<"n","o">> }

\* the vectorizer's analyzer up to n-grams: tokens of two or more characters
\* (token_pattern \w\w+) that are not stop words, in order
Analyze(text) ==
    SelectSeq(split(text), LAMBDA w : Len(w) >= 2 /\ w \notin english_stop_words)

\* occurrences of the n-gram f in the token sequence
Count(toks, f) ==
    Cardinality({i \in 1..(Len(toks) - Len(f) + 1) : SubSeq(toks, i, i + Len(f) - 1) = f})

\* the n-grams with the trigrams too, as ngram_range=(1, 3) would give
NgramsWithTrigrams(toks) ==
    UNION { {SubSeq(toks, i, i + n - 1) : i \in 1..(Len(toks) - n + 1)} :
                n \in NgramMin..(NgramMax + 1) }

\* the n-grams of the token sequence, NgramMin to NgramMax tokens long
Ngrams(toks) ==
    UNION { {SubSeq(toks, i, i + n - 1) : i \in 1..(Len(toks) - n + 1)} :
                n \in NgramMin..NgramMax }

\* documents of the corpus that hold the n-gram
DocFreq(docs, f) == Cardinality({d \in 1..Len(docs) : Count(Analyze(docs[d]), f) > 0})

\* a weight that falls as the document frequency rises, in the place of
\* ln((1 + n) / (1 + df)) + 1
Idf(n, df) == 1 + n - df

\* vectorizer.fit: the vocabulary is the n-grams found in at least min_df
\* documents and at most max_df of them, each with its idf weight
fit(docs) ==
    LET all == UNION {Ngrams(Analyze(docs[d])) : d \in 1..Len(docs)}
        voc == {f \in all : /\ DocFreq(docs, f) >= MinDf
                            /\ DocFreq(docs, f) * 100 <= MaxDfPercent * Len(docs)}
    IN  [vocabulary |-> voc,
         idf |-> [f \in voc |-> Idf(Len(docs), DocFreq(docs, f))]]

RECURSIVE SumSquares(_, _)
SumSquares(x, S) ==
    IF S = {} THEN 0
    ELSE LET f == CHOOSE g \in S : TRUE
         IN  x[f] * x[f] + SumSquares(x, S \ {f})

\* vectorizer.transform([text]): term frequency times idf on the features of
\* the vocabulary, to be divided by the Euclidean norm (norm2 is its square;
\* the zero vector stays zero)
transform(vec, text) ==
    LET toks == Analyze(text)
        tfidf == [f \in vec.vocabulary |-> Count(toks, f) * vec.idf[f]]
    IN  [tfidf |-> tfidf, norm2 |-> SumSquares(tfidf, vec.vocabulary)]

\* u / |u| = v / |v|, on vectors of one vocabulary with entries >= 0
SameVector(u, v) ==
    /\ (u.norm2 = 0) = (v.norm2 = 0)
    /\ \A f \in DOMAIN u.tfidf :
          u.tfidf[f] * u.tfidf[f] * v.norm2 = v.tfidf[f] * v.tfidf[f] * u.norm2

VecWords == { <<"c","a","t">>, <<"c","a","f">>, <<"a","n">> }

\* normalised texts of up to MaxTokens tokens
TokenSeqs == UNION {[1..k -> VecWords] : k \in 0..MaxTokens}

SameTokens(x, y) ==
    /\ Len(x) = Len(y)
    /\ \A w \in VecWords :
          Cardinality({i \in 1..Len(x) : x[i] = w}) = Cardinality({i \in 1..Len(y) : y[i] = w})

TokenSeqPairs == {p \in TokenSeqs \X TokenSeqs : SameTokens(p[1], p[2])}

\* the training documents: processed_content of three articles
TrainDocs ==
    { <<"c","a","t"," ","c","a","t"," ","c","a","f"," ","c","a","t">>,
      <<"c","a","f"," ","c","a","t">>,
      <<"c","a","t"," ","a","n"," ","c","a","f">> }

FittedVectorizers == {fit(docs) : docs \in [1..3 -> TrainDocs]}

NoVector == [tfidf |-> <<>>, norm2 |-> 0]

VecCalc(op, vec, a, b, outa, outb) ==
    [op |-> op, vec |-> vec, a |-> a, b |-> b, outa |-> outa, outb |-> outb]

\* a fitted vectorizer and two texts of the same tokens, in any two orders
InitVec ==
    /\ fs = EmptyDir /\ ServerDown /\ NoTrainer
    /\ calc \in {VecCalc("input", vec, join(p[1]), join(p[2]), NoVector, NoVector) :
                    vec \in FittedVectorizers, p \in TokenSeqPairs}

\* vectorizer.transform on each of the two texts
Transform ==
    /\ calc.op = "input"
    /\ calc' = VecCalc("vectorizer.transform", calc.vec, calc.a, calc.b,
                       transform(calc.vec, calc.a), transform(calc.vec, calc.b))
    /\ UNCHANGED <<fs, serverVars, callVars, trainerVars>>

\* the next pair of texts
Forget ==
    /\ calc.op = "vectorizer.transform"
    /\ calc' = VecCalc("input", calc.vec, calc.a, calc.b, NoVector, NoVector)
    /\ UNCHANGED <<fs, serverVars, callVars, trainerVars>>

NextVec == Transform \/ Forget

SpecVec == InitVec /\ [][NextVec]_vars

----------------------------------------------------------------------------
(* Properties of the serving process *)

Answered == server_pc = "running" /\ request # NoRequest

InferenceCalls == {"vectorizer.transform", "model.predict", "model.predict_proba"}

\* a headline or content that is absent or holds whitespace only
Blank(v) == v.t = "absent" \/ (v.t = "str" /\ \A i \in 1..Len(v.s) : v.s[i] \in Whitespace)

\* C1: when model_loaded is false every POST /predict, whatever its body, is
\* answered success=false with the model-not-loaded error, and request
\* parsing, preprocess_text, vectorizer.transform and the classifier are not
\* invoked.
C1_ModelNotLoaded ==
    (Answered /\ ~model_loaded) =>
        /\ response.success = FALSE
        /\ "error" \in response.keys
        /\ response.error = <<ModelNotLoadedMsg, "">>
        /\ invoked = {}

C1_Witness ==
    /\ Answered /\ ~model_loaded
    /\ request.body = "object" /\ request.content.t = "str" /\ ~Blank(request.content)
    /\ response.error[1] = ModelNotLoadedMsg

\* C2 as stated: every POST /predict whose headline and content are both
\* blank is answered with the provide-a-headline-or-content error, and the
\* vectorizer and the classifier are not invoked.
C2_Original ==
    (Answered /\ request.body = "object"
        /\ Blank(request.headline) /\ Blank(request.content)) =>
        /\ response.success = FALSE
        /\ response.error = <<ValidationMsg, "">>
        /\ invoked \cap InferenceCalls = {}

\* C2 amended: with the artifact loaded, every POST /predict with a JSON
\* object body whose headline and content are both blank is answered with
\* the provide-a-headline-or-content error, and the vectorizer and the
\* classifier are not invoked.
C2_ValidationError ==
    (Answered /\ model_loaded /\ request.body = "object"
        /\ Blank(request.headline) /\ Blank(request.content)) =>
        /\ response.success = FALSE
        /\ response.error = <<ValidationMsg, "">>
        /\ invoked \cap InferenceCalls = {}

C2_Witness ==
    /\ Answered /\ model_loaded
    /\ request.headline = JStr(<<" ">>) /\ request.content = JStr(<<"\n", " ">>)
    /\ response.error[1] = ValidationMsg

\* C3: with the artifact loaded, an exception raised while parsing the body,
\* normalising, vectorising, predicting or building the response is caught
\* and answered success=false with 'Prediction error: <message>'; nothing
\* propagates out of the handler.
C3_PredictionError ==
    (Answered /\ model_loaded) =>
        /\ response.status = 200
        /\ request.body # "object" => raised # NoExc
        /\ (request.body = "object" /\ env.fail # "none"
                /\ ~(Blank(request.headline) /\ Blank(request.content)))
             => raised # NoExc
        /\ (request.body = "object" /\ request.content.t \in {"int", "null"})
             => raised # NoExc
        /\ raised # NoExc =>
              /\ response.success = FALSE
              /\ response.keys = {"error", "success"}
              /\ response.error = <<PredictionPrefix, raised.msg>>

C3_Witness ==
    /\ Answered /\ model_loaded
    /\ request.content = JInt(7) /\ env.fail = "none"
    /\ raised.type = "TypeError"
    /\ response.error[1] = PredictionPrefix

\* C4: on a successful prediction the result is 'Real' exactly when the
\* predicted class is 1 and 'Fake' for every other class; it is never
\* anything else.
C4_Label ==
    (Answered /\ response.success) =>
        /\ response.result \in {"Real", "Fake"}
        /\ response.result = "Real" <=> env.prediction = 1

C4_Witness ==
    /\ Answered /\ response.success
    /\ env.prediction = 0 /\ response.result = "Fake"

\* C5: every response of the handler has status 200 and a boolean success;
\* a success=true response has result, confidence, headline, content and
\* timestamp and no error; a success=false response has an error and no
\* result or confidence.
C5_ResponseShape ==
    Answered =>
        /\ response.status = 200
        /\ "success" \in response.keys
        /\ response.success \in BOOLEAN
        /\ response.success =>
              /\ {"result", "confidence", "headline", "content", "timestamp"}
                    \subseteq response.keys
              /\ "error" \notin response.keys
        /\ ~response.success =>
              /\ "error" \in response.keys
              /\ response.keys \cap {"result", "confidence"} = {}

C5_Witness ==
    /\ Answered /\ model_loaded
    /\ ~response.success /\ response.status = 200
    /\ raised.type = "BadRequest"

\* C6: in a successful result the headline is echoed unchanged; the content
\* is the submitted content when it has at most 200 characters, else its
\* first 200 characters followed by '...', so never more than 203.
C6_Echo ==
    (Answered /\ response.success) =>
        /\ response.headline =
              (IF request.headline.t = "absent" THEN JStr(<<>>) ELSE request.headline)
        /\ request.content.t = "absent" => response.content = JStr(<<>>)
        /\ request.content.t = "str" =>
              /\ response.content.t = "str"
              /\ Len(response.content.s) <= 203
              /\ Len(request.content.s) <= 200 => response.content = request.content
              /\ Len(request.content.s) > 200 =>
                    /\ Len(response.content.s) = 203
                    /\ \A i \in 1..200 : response.content.s[i] = request.content.s[i]
                    /\ \A i \in 201..203 : response.content.s[i] = "."

C6_Witness ==
    /\ Answered /\ response.success
    /\ request.content.t = "str" /\ Len(request.content.s) = 201
    /\ Len(response.content.s) = 203

\* the width of one rounding step, in the unit of Max(proba) * PercentFactor
Step == ProbUnit \div Pow10(RoundDigits)

\* C7 as stated: the confidence is the greatest class probability as a
\* percentage rounded to 2 places, so it is at least every class percentage
\* and lies in [0, 100].
C7_Original ==
    (Answered /\ response.success) =>
        /\ \A i \in 1..Len(env.proba) :
              response.confidence * Step >= env.proba[i] * PercentFactor
        /\ response.confidence >= 0
        /\ response.confidence <= 100 * Pow10(RoundDigits)

\* C7 amended: the confidence is the greatest class probability as a
\* percentage rounded to 2 places: a multiple of 0.01 within 0.005 of that
\* percentage, so at least every class percentage less 0.005, and in
\* [0, 100].
C7_Confidence ==
    (Answered /\ response.success) =>
        /\ \E i \in 1..Len(env.proba) :
              /\ \A j \in 1..Len(env.proba) : env.proba[j] <= env.proba[i]
              /\ 2 * (response.confidence * Step - env.proba[i] * PercentFactor) <= Step
              /\ 2 * (env.proba[i] * PercentFactor - response.confidence * Step) <= Step
        /\ \A i \in 1..Len(env.proba) :
              2 * response.confidence * Step + Step >= 2 * env.proba[i] * PercentFactor
        /\ response.confidence >= 0
        /\ response.confidence <= 100 * Pow10(RoundDigits)

C7_Witness ==
    /\ Answered /\ response.success
    /\ env.proba = <<29996, 70004>>
    /\ response.confidence = 7000

\* the artifact of the directory cannot be loaded
ArtifactUnusable ==
    \/ ~fs.dir
    \/ fs.model_pkl.st # "complete"
    \/ fs.vectorizer_pkl.st # "complete"

\* C10: at start-up an absent artifact file and one that fails to
\* deserialize both leave the process running with model_loaded false; the
\* process does not crash.
C10_Original ==
    (server_pc # "down" /\ ArtifactUnusable) =>
        server_pc = "running" /\ ~model_loaded

----------------------------------------------------------------------------
(* Properties of the training run *)

\* the first classifier, in insertion order, of greatest test accuracy
FirstBest(accs) ==
    ModelNames[CHOOSE i \in 1..Len(ModelNames) :
                  /\ \A j \in 1..Len(ModelNames) : accs[j] <= accs[i]
                  /\ \A j \in 1..Len(ModelNames) : accs[j] = accs[i] => i <= j]

\* C8: after train_models has fitted every classifier, best_model is the
\* classifier of greatest test accuracy, the first in insertion order among
\* equals, for every combination of test accuracies.
C8_Original ==
    trainer_pc = "trained" => best_model = FirstBest(results)

\* the directory holds no artifact, or the whole artifact of one run
WholeArtifact ==
    LET files == {fs.model_pkl, fs.vectorizer_pkl, fs.model_info}
    IN  \/ \A f \in files : f.st = "absent"
        \/ /\ \A f \in files : f.st = "complete"
           /\ \A f, g \in files : f.run = g.run

\* C9: save_model is atomic: at every instant, also after a crash or an
\* exception part-way, the directory holds the complete previous artifact or
\* the complete new one, never a mix of runs or a partly written set.
C9_Original == WholeArtifact

\* a corpus file is absent or cannot be parsed
LoadFails(c) == {c.fake.st, c.true.st} \cap {"missing", "malformed"} # {}

\* both corpus files are read and parsed, and one lacks 'title' or 'text'
ColumnMissing(c) ==
    /\ c.fake.st = "ok" /\ c.true.st = "ok"
    /\ ~({"title", "text"} \subseteq c.fake.cols \cap c.true.cols)

\* C17: a training CSV file that lacks the 'title' or the 'text' column is
\* read with the column taken as empty strings: load_datasets still returns
\* the corpus and training goes on.
C17_Original ==
    ColumnMissing(corpus) => (trainer_pc # "aborted" /\ corpus.diag = "")

\* C18: when a corpus file is missing or cannot be parsed, load_datasets
\* prints a diagnostic and returns None, main returns at once, none of
\* prepare_data, train_models, evaluate_best_model or save_model runs, and
\* the artifact directory stays as it was before the run.
C18_AbortOnLoadFailure ==
    /\ [](LoadFails(corpus) =>
            /\ trainer_pc = "aborted"
            /\ corpus.diag # ""
            /\ vocab = 0 /\ train_calls = 0
            /\ best_model = "None" /\ best_model_name = "undefined")
    /\ [][(trainer_pc = "init" \/ LoadFails(corpus')) => fs' = fs]_vars

C18_Witness ==
    /\ trainer_pc = "aborted" /\ corpus.true.st = "malformed"
    /\ run = 2 /\ fs.model_info.st = "complete" /\ fs.model_info.run = 1

\* C20: whenever save_model completes, the directory holds the classifier,
\* the vectorizer and the info summary, and the summary describes the files
\* beside it: the name of the saved classifier, the test accuracy that
\* classifier obtained when it was last fitted, the size of the saved
\* vectorizer's vocabulary.
C20_Original ==
    trainer_pc = "done" =>
        /\ fs.dir
        /\ fs.model_pkl.st = "complete"
        /\ fs.vectorizer_pkl.st = "complete"
        /\ fs.model_info.st = "complete"
        /\ fs.model_info.name = fs.model_pkl.name
        /\ fs.model_info.acc * MaxAcc <= fs.model_pkl.acc * 10000 + MaxAcc
        /\ fs.model_info.acc * MaxAcc >= fs.model_pkl.acc * 10000 - MaxAcc
        /\ fs.model_info.nfeat = fs.vectorizer_pkl.nfeat

----------------------------------------------------------------------------
(* Properties of training and serving together *)

\* C11: the serving process loads the artifact once, at start-up: no
\* /predict call changes model, vectorizer or model_loaded, and a training
\* run that rewrites the artifact files while the server runs does not
\* change what the server predicts with.
C11_LoadedOnce ==
    [][server_pc = "running" =>
          /\ server_pc' = "running"
          /\ model' = model
          /\ vectorizer' = vectorizer
          /\ model_loaded' = model_loaded]_vars

C11_Witness ==
    /\ server_pc = "running" /\ model_loaded /\ response.success
    /\ model.run = 1
    /\ fs.model_pkl.st = "complete" /\ fs.model_pkl.run = 2
    /\ fs.model_pkl.name # model.name

\* C19: a serving process started after save_model has completed loads the
\* vectorizer fitted in that training run and the classifier that run
\* selected as best_model.
C19_RoundTrip ==
    [][(server_pc = "down" /\ server_pc' # "down" /\ trainer_pc = "done") =>
          /\ server_pc' = "running"
          /\ model_loaded'
          /\ model'.st = "complete" /\ vectorizer'.st = "complete"
          /\ model'.run = run /\ vectorizer'.run = run
          /\ model'.name = best_model
          /\ model'.acc = results[IndexOf(best_model)]
          /\ vectorizer'.nfeat = vocab]_vars

C19_Witness ==
    /\ server_pc = "running" /\ model_loaded /\ response.success
    /\ trainer_pc = "done" /\ run = 2
    /\ model.run = 2 /\ vectorizer.run = 2
    /\ model.name = "random_forest" /\ best_model = "random_forest"
    /\ fs.model_info.st = "complete" /\ fs.model_info.run = 2

----------------------------------------------------------------------------
(* Properties of the normalisers *)

NormOps == {"app.preprocess_text", "trainer.preprocess_text"}

\* C12: both normalisers return the empty string, without raising, for None,
\* for NaN and for the empty string.
C12_AbsentIsEmpty ==
    (/\ calc.op \in NormOps
     /\ calc.arg \in {JNull, NaN, JStr(<<>>)})
        => (calc.out.exc = NoExc /\ calc.out.value = <<>>)

C12_Witness ==
    /\ calc.op = "trainer.preprocess_text"
    /\ calc.arg = NaN /\ calc.n = 1
    /\ calc.out.exc = NoExc /\ calc.out.value = <<>>

\* C13: for every input string, the output of either normaliser holds only
\* lowercase ASCII letters and single spaces between tokens: it does not
\* start or end with a space and has no two spaces in a row.
C13_OutputAlphabet ==
    (calc.op \in NormOps /\ calc.arg.t = "str") =>
        LET o == calc.out.value
        IN  /\ calc.out.exc = NoExc
            /\ \A i \in 1..Len(o) : o[i] \in LowerLetters \cup {" "}
            /\ Len(o) > 0 => (o[1] # " " /\ o[Len(o)] # " ")
            /\ \A i \in 1..(Len(o) - 1) : ~(o[i] = " " /\ o[i+1] = " ")

C13_Witness ==
    /\ calc.op = "app.preprocess_text" /\ calc.n = 1
    /\ calc.arg = JStr(<<" ","\n","C","a","t","s","!"," "," ","c","a","f","é"," ","\n">>)
    /\ calc.out.value = <<"c","a","t"," ","c","a","f">>

\* C14 as stated: a normaliser applied to its own output returns it unchanged.
C14_Original ==
    (calc.op \in NormOps /\ calc.n >= 2) => calc.out.value = calc.arg.s

----------------------------------------------------------------------------
(* Properties of the vectorizer *)

\* C16 as stated: two texts whose token multisets are equal, whatever the
\* order of the tokens, are transformed to identical feature vectors.
C16_Original ==
    (calc.op = "vectorizer.transform" /\ SameTokens(split(calc.a), split(calc.b)))
        => SameVector(calc.outa, calc.outb)

\* C16: two texts with the same multiset of unigrams and the same multiset
\* of bigrams of adjacent tokens, as the vectorizer tokenises them, are
\* transformed to identical feature vectors.
C16_SameNgrams ==
    (/\ calc.op = "vectorizer.transform"
     /\ \A f \in [1..1 -> VecWords] \cup [1..2 -> VecWords] :
           Count(Analyze(calc.a), f) = Count(Analyze(calc.b), f))
        => SameVector(calc.outa, calc.outb)

C16_Witness ==
    /\ calc.op = "vectorizer.transform"
    /\ calc.a = join(<< <<"c","a","t">>, <<"c","a","t">>, <<"c","a","f">>, <<"c","a","t">> >>)
    /\ calc.b = join(<< <<"c","a","t">>, <<"c","a","f">>, <<"c","a","t">>, <<"c","a","t">> >>)
    /\ << <<"c","a","t">>, <<"c","a","f">> >> \in calc.vec.vocabulary
    /\ calc.outa.norm2 > 0
    /\ SameVector(calc.outa, calc.outb)

----------------------------------------------------------------------------
(* Properties of the trainer's state after train_models *)

\* C21 as stated: after every return of train_models, first or repeated, and
\* for every combination of test accuracies, best_model is not None,
\* best_model_name is a key of the returned results, best_model is the
\* classifier of that name and best_score is its test accuracy in the
\* returned results.
C21_Original ==
    trainer_pc = "trained" =>
        /\ best_model # "None"
        /\ \E i \in 1..Len(ModelNames) :
              /\ best_model_name = ModelNames[i]
              /\ best_model = ModelNames[i]
              /\ best_score = results[i]

----------------------------------------------------------------------------
(* The two normalisers compared *)

\* the ASCII letters of a token
Letters(w) == SelectSeq(w, LAMBDA c : c \in LowerLetters \cup UpperLetters)

\* lit occurs in s
Contains(s, lit) ==
    \E j \in 1..(Len(s) - Len(lit) + 1) : SubSeq(s, j, j + Len(lit) - 1) = lit

\* every whitespace-separated token keeps more than 2 letters
LongTokens(s) == \A k \in 1..Len(split(s)) : Len(Letters(split(s)[k])) > 2

\* C22 as stated: on every input with no 'http' or 'www' substring and no
\* '@', whose tokens all have more than 2 letters once the non-letters are
\* removed, the two normalisers return the same string.
C22_Original ==
    (/\ calc.op = "both" /\ calc.arg.t = "str"
     /\ ~Contains(calc.arg.s, <<"h","t","t","p">>)
     /\ ~Contains(calc.arg.s, <<"w","w","w">>)
     /\ ~Contains(calc.arg.s, <<"@">>)
     /\ LongTokens(calc.arg.s))
        => calc.out = calc.trainer_out

\* C22: on every input with no 'http' or 'www' substring in any mix of upper
\* and lower case and no '@', whose tokens all have more than 2 letters once
\* the non-letters are removed, the two normalisers return the same string.
C22_SameOutsideUrls ==
    (/\ calc.op = "both" /\ calc.arg.t = "str"
     /\ ~Contains([i \in 1..Len(calc.arg.s) |-> LowerChar(calc.arg.s[i])], <<"h","t","t","p">>)
     /\ ~Contains([i \in 1..Len(calc.arg.s) |-> LowerChar(calc.arg.s[i])], <<"w","w","w">>)
     /\ ~Contains(calc.arg.s, <<"@">>)
     /\ LongTokens(calc.arg.s))
        => calc.out = calc.trainer_out

C22_Witness ==
    /\ calc.op = "both"
    /\ calc.arg = JStr(<<"C","a","t","s","!"," "," ","c","a","f","é">>)
    /\ calc.out.exc = NoExc
    /\ calc.out.value = <<"c","a","t"," ","c","a","f">>
    /\ calc.trainer_out = calc.out

----------------------------------------------------------------------------
(* The label and the confidence of one prediction *)

\* the class a label stands for
ClassOf(result) == IF result = "Real" THEN RealClass ELSE 0

====
